---- MODULE Spec2Model ----
(***************************************************************************)
(* Model of the agent server bootstrap of rekall-agent:                    *)
(*   rekall_agent/config_updater.py  (AgentServerInitialize and its two    *)
(*                                    deployment variants)                 *)
(*   rekall_agent/hooks.py           (AgentConfigHook)                     *)
(*                                                                         *)
(* One run of the plugin is one process: StartRun picks the arguments and  *)
(* the class attribute `secret`, the following actions are the statements  *)
(* of collect / generate_keys / write_config / write_manifest between two  *)
(* points where the run can stop (a yield, a raise), and EndRun is the     *)
(* process exit.  Between runs the operator may change the configuration   *)
(* directory (remove a file, change a mode, hand-edit the server           *)
(* configuration).                                                         *)
(***************************************************************************)
EXTENDS Integers, Sequences, FiniteSets, TLC

----------------------------------------------------------------------------
(* Bounds of the model *)

\* number of runs of the plugin
MaxRuns == 3
\* number of changes the operator makes to the directory between runs
MaxExternal == 1

----------------------------------------------------------------------------
(* File names: class attributes of AgentServerInitialize *)

ca_private_key_filename == "ca.private_key.pem"
ca_cert_filename == "ca.cert.pem"
server_private_key_filename == "server.private_key.pem"
server_certificate_filename == "server.certificate.pem"
client_config_filename == "client.config.yaml"
server_config_filename == "server.config.yaml"

KeyFiles ==
  {ca_private_key_filename, ca_cert_filename,
   server_private_key_filename, server_certificate_filename}

Files == KeyFiles \cup {client_config_filename, server_config_filename}

\* the comment line that starts the client configuration document
client_config_warning == "# Warning: Do not edit this file. Edit the server config instead."

----------------------------------------------------------------------------
(* Inputs of a run *)

Variants == {"gcs", "http"}
LabelSets == {{}, {"foo"}, {"All"}}
WritebackPaths == {"/etc/rekall/agent.local.json", "/tmp/agent.json"}

----------------------------------------------------------------------------
(* Values.  Every object is a record with a `kind` field, so that any two  *)
(* of them can be compared.                                                *)

None == [kind |-> "None"]
NoKey == 0

\* a file that does not exist
Absent == [present |-> FALSE, r |-> FALSE, w |-> FALSE, data |-> None]

\* the text a hand edit leaves in the server configuration document
Garbage == [kind |-> "garbage"]

\* the empty string
Empty == [kind |-> "empty"]

\* obj.NoneObject: false in a condition, but not the object None
NoneObject == [kind |-> "NoneObject"]

\* `if x`, for a text x: None and the empty string are false
Truthy(x) == x \notin {None, Empty}

----------------------------------------------------------------------------
(* Crypto provider (rekall_agent.crypto), an external collaborator that is  *)
(* modelled by its contract.  A private key is a number, its public key is *)
(* the same number.  A certificate binds a subject public key and records  *)
(* the private key that signed it.                                         *)

get_public_key(cert) == cert.subject

PublicOf(private_key) == private_key

MakeCACert(private_key) ==
  [kind |-> "X509Ceritifcate", subject |-> PublicOf(private_key), signer |-> private_key]

MakeCASignedCert(private_key, ca_cert_, ca_private_key_) ==
  [kind |-> "X509Ceritifcate", subject |-> PublicOf(private_key), signer |-> ca_private_key_]

\* X509Ceritifcate.verify: TRUE when the certificate was signed by the
\* private key of public_key; the caller's run fails otherwise.
CertVerify(cert, public_key) == cert.signer # NoKey /\ PublicOf(cert.signer) = public_key

Sign(private_key, data) == [kind |-> "signature", key |-> private_key, data |-> data]

SigVerify(signature, data, public_key) ==
  /\ signature.kind = "signature"
  /\ signature.data = data
  /\ signature.key # NoKey
  /\ PublicOf(signature.key) = public_key

\* to_primitive / from_primitive of keys and certificates: PEM text
KeyToPrimitive(private_key) == [kind |-> "PRIVATE KEY", key |-> private_key]
KeyFromPrimitive(pem) == pem.key
CertToPrimitive(cert) == [kind |-> "CERTIFICATE", subject |-> cert.subject, signer |-> cert.signer]
CertFromPrimitive(pem) ==
  [kind |-> "X509Ceritifcate", subject |-> pem.subject, signer |-> pem.signer]

----------------------------------------------------------------------------
(* Deployment policies (rekall_agent.policies.gcs, .servers.http_server),  *)
(* external collaborators modelled by their contract.                      *)

GCSServerPolicy ==
  [kind |-> "GCSServerPolicy", bucket |-> "bucket", certificate |-> None, private_key |-> NoKey]

HTTPServerPolicy(certificate, private_key) ==
  [kind |-> "HTTPServerPolicy", bucket |-> "base_url", certificate |-> certificate,
   private_key |-> private_key]

\* a location below the bucket (the base url) of a server policy
Location(server, path) ==
  [kind |-> "Location",
   scheme |-> IF server.kind = "GCSServerPolicy" THEN "gs" ELSE "http",
   bucket |-> server.bucket,
   path |-> path]

manifest_for_client(server) == Location(server, "manifest")

manifest_for_server(server) == Location(server, "manifest")

flow_ticket_for_client(server) == Location(server, "Startup/{client_id}")

GCSAgentPolicy(manifest_location) ==
  [kind |-> "GCSAgentPolicy", manifest_location |-> manifest_location,
   labels |-> {}, secret |-> 0, writeback_path |-> ""]

----------------------------------------------------------------------------
(* agent.Configuration and its serialised form *)

ConfigFields == {"server", "client", "ca_certificate", "manifest", "signed_manifest"}

\* agent.Configuration(session=...): no field set
Configuration ==
  [kind |-> "Configuration", server |-> None, client |-> None, ca_certificate |-> None,
   manifest |-> None, signed_manifest |-> None]

\* Configuration.to_primitive followed by yaml_utils.safe_dump: the document
\* holds the fields that are set, and only those
to_primitive(config) ==
  [kind |-> "yaml",
   fields |-> [f \in {g \in ConfigFields : config[g] # None} |-> config[f]]]

\* yaml.safe_load followed by Configuration.from_primitive
from_primitive(doc) ==
  [kind |-> "Configuration",
   server |-> IF "server" \in DOMAIN doc.fields THEN doc.fields["server"] ELSE None,
   client |-> IF "client" \in DOMAIN doc.fields THEN doc.fields["client"] ELSE None,
   ca_certificate |->
     IF "ca_certificate" \in DOMAIN doc.fields THEN doc.fields["ca_certificate"] ELSE None,
   manifest |-> IF "manifest" \in DOMAIN doc.fields THEN doc.fields["manifest"] ELSE None,
   signed_manifest |->
     IF "signed_manifest" \in DOMAIN doc.fields THEN doc.fields["signed_manifest"] ELSE None]

\* whether a document parses into a Configuration
Parses(data) == data.kind = "yaml"

\* Manifest.to_json / SignedManifest.to_json
to_json(object) == [kind |-> "json", of |-> object]

----------------------------------------------------------------------------
(* State *)

VARIABLES
  dir,                \* the configuration directory: file name -> file
  dirMode,            \* the directory's own permissions [r, w]
  nextKey,            \* the next key pair the crypto provider generates
  runs,               \* runs started so far
  externals,          \* operator changes made so far
  pc,                 \* position of the current run ("idle" between runs)
  error,              \* the exception that ended the run ("" if none)
  variant,            \* which plugin runs: "gcs" or "http"
  plugin_args,        \* self.plugin_args [config_dir is fixed; labels, client_writeback_path]
  secret,             \* class attribute `secret` of this process
  ca_private_key,     \* local ca_private_key of generate_keys
  ca_cert,            \* self.ca_cert
  server_private_key, \* self.server_private_key
  server_cert,        \* self.server_cert
  config,             \* local config of write_config
  _config,            \* self._config
  messages,           \* the rows yielded so far by collect
  session,            \* session parameters agent_config_data, agent_configuration
  environ,            \* os.environ: REKALL_AGENT_CONFIG, REKALL_AGENT_CONFIG_FILE
  hook,               \* what AgentConfigHook.calculate last answered
  \* history of the current run
  start,              \* the directory and the arguments at the start of the run
  stages,             \* the stages the run has passed, in order
  generated,          \* the keys generated by this run
  attempted,          \* the files this run has opened for writing
  written,            \* the files this run has written
  uploads,            \* the writes this run made to the manifest location
  \* history across runs
  pristine,           \* the directory started empty, no operator change, no failed run
  first               \* what the first successful run of a pristine directory left

dirVars == <<dir, dirMode>>
memVars == <<ca_private_key, ca_cert, server_private_key, server_cert, config, _config>>
argVars == <<variant, plugin_args, secret>>
runHist == <<start, stages, generated, attempted, written, uploads>>
allHist == <<pristine, first>>
sessVars == <<session, environ, hook>>
vars == <<dir, dirMode, nextKey, runs, externals, pc, error, variant, plugin_args,
          secret, ca_private_key, ca_cert, server_private_key, server_cert, config, _config,
          messages, session, environ, hook, start, stages, generated, attempted, written,
          uploads, pristine, first>>

NoArgs == [labels |-> {}, client_writeback_path |-> ""]
NoSession == [agent_config_data |-> None, agent_configuration |-> ""]
NoEnviron == [REKALL_AGENT_CONFIG |-> None, REKALL_AGENT_CONFIG_FILE |-> ""]
NoHook == [outcome |-> "", source |-> "", value |-> None]
NoStart == [dir |-> [f \in Files |-> Absent], labels |-> {}]
NoFirst == [set |-> FALSE, ca_key |-> None, ca_cert |-> None, server_key |-> None,
            server_cert |-> None, server_config |-> None]

----------------------------------------------------------------------------
(* File system *)

\* open(path).read() succeeds
Readable(d, f) == d[f].present /\ d[f].r

\* open(path, "wb") succeeds: an existing file must be writable, a new file
\* needs a writable directory
Writable(d, mode, f) == IF d[f].present THEN d[f].w ELSE mode.w

\* the directory after open(path, "wb"), write, close
WriteFile(d, f, data) ==
  [d EXCEPT ![f] = IF d[f].present
                     THEN [d[f] EXCEPT !.data = data]
                     ELSE [present |-> TRUE, r |-> TRUE, w |-> TRUE, data |-> data]]

Init ==
  /\ dir = [f \in Files |-> Absent]
  /\ dirMode = [r |-> TRUE, w |-> TRUE]
  /\ nextKey = 1
  /\ runs = 0
  /\ externals = 0
  /\ pc = "idle"
  /\ error = ""
  /\ variant = "gcs"
  /\ plugin_args = NoArgs
  /\ secret = 0
  /\ ca_private_key = NoKey
  /\ ca_cert = None
  /\ server_private_key = NoKey
  /\ server_cert = None
  /\ config = None
  /\ _config = None
  /\ messages = <<>>
  /\ session = NoSession
  /\ environ = NoEnviron
  /\ hook = NoHook
  /\ start = NoStart
  /\ stages = <<>>
  /\ generated = {}
  /\ attempted = {}
  /\ written = {}
  /\ uploads = <<>>
  /\ pristine = TRUE
  /\ first = NoFirst

----------------------------------------------------------------------------
(* The operator, between two runs *)

ExternalChange(d, mode) ==
  /\ pc = "idle"
  /\ externals < MaxExternal
  /\ externals' = externals + 1
  /\ dir' = d
  /\ dirMode' = mode
  /\ pristine' = FALSE
  /\ UNCHANGED <<nextKey, runs, pc, error, messages, first>>
  /\ UNCHANGED <<memVars, argVars, runHist, sessVars>>

\* rm <file>
ExternalRemove ==
  \E f \in Files :
    /\ dir[f].present
    /\ ExternalChange([dir EXCEPT ![f] = Absent], dirMode)

\* rm *.pem
ExternalRemoveKeys ==
  /\ \E f \in KeyFiles : dir[f].present
  /\ ExternalChange([f \in Files |-> IF f \in KeyFiles THEN Absent ELSE dir[f]], dirMode)

\* chmod 000 <file>
ExternalChmod ==
  \E f \in Files :
    /\ dir[f].present
    /\ dir[f].r \/ dir[f].w
    /\ ExternalChange([dir EXCEPT ![f].r = FALSE, ![f].w = FALSE], dirMode)

\* chmod <mode> <config_dir>
ExternalChmodDir ==
  \E r \in BOOLEAN, w \in BOOLEAN :
    /\ <<r, w>> # <<dirMode.r, dirMode.w>>
    /\ ExternalChange(dir, [r |-> r, w |-> w])

\* a hand edit of the server configuration that leaves it unparsable
ExternalEdit ==
  /\ dir[server_config_filename].present
  /\ dir[server_config_filename].data # Garbage
  /\ ExternalChange([dir EXCEPT ![server_config_filename].data = Garbage], dirMode)

----------------------------------------------------------------------------
(* A run.  Raise(e) is an exception that leaves collect. *)

\* (mutation of Raise: collect swallows the exception of a method and goes on
\* to its last statement)
Raise_Swallowed(e) ==
  /\ pc' = "finish"
  /\ error' = e

Raise(e) ==
  /\ pc' = "failed"
  /\ error' = e

Goto(label) ==
  /\ pc' = label
  /\ error' = error

\* os.access(self.config_dir, os.R_OK)
ConfigDirAccess(mode) == mode.r

\* secret = os.urandom(5).encode("hex"), evaluated once in each process: the
\* n-th process draws a value no other process draws
urandom(n) == n

\* The process starts and collect runs up to its loop over the three methods.
StartRun ==
  \E v \in Variants, labels \in LabelSets, path \in WritebackPaths :
    /\ pc = "idle"
    /\ runs < MaxRuns
    /\ runs' = runs + 1
    /\ variant' = v
    /\ plugin_args' = [labels |-> labels, client_writeback_path |-> path]
    /\ secret' = urandom(runs + 1)
    /\ messages' = <<>>
    /\ start' = [dir |-> dir, labels |-> labels]
    /\ stages' = <<>>
    /\ generated' = {}
    /\ attempted' = {}
    /\ written' = {}
    /\ uploads' = <<>>
    /\ IF ConfigDirAccess(dirMode) THEN Goto("generate_keys") ELSE Raise("PluginError")
    /\ UNCHANGED <<dirVars, nextKey, externals, memVars, allHist, sessVars>>

\* open(name, "wb"); fd.write(data): the file is written, or IOError is raised
Write(name, data, next) ==
  /\ attempted' = attempted \cup {name}
  /\ IF Writable(dir, dirMode, name)
       THEN /\ dir' = WriteFile(dir, name, data)
            /\ written' = written \cup {name}
            /\ Goto(next)
       ELSE /\ dir' = dir
            /\ written' = written
            /\ Raise("IOError")

\* crypto.RSAPrivateKey(...).generate_key()
GenerateKey ==
  /\ nextKey' = nextKey + 1
  /\ generated' = generated \cup {nextKey}

\* (mutation of LoadCA: the first try block never finds the CA files, the CA
\* is generated in every run)
LoadCA_AlwaysRegenerate ==
  /\ pc = "generate_keys"
  /\ ca_private_key' = ca_private_key
  /\ ca_cert' = ca_cert
  /\ messages' = Append(messages, "Generating new CA private key")
  /\ stages' = stages
  /\ Goto("generate_ca_key")
  /\ UNCHANGED <<dirVars, nextKey, runs, externals, argVars, server_private_key, server_cert,
                 config, _config, start, generated, attempted, written, uploads, allHist,
                 sessVars>>

\* generate_keys, first try block: both files of the CA are read
LoadCA ==
  /\ pc = "generate_keys"
  /\ IF Readable(dir, ca_private_key_filename)
       THEN ca_private_key' = KeyFromPrimitive(dir[ca_private_key_filename].data)
       ELSE ca_private_key' = ca_private_key
  /\ IF Readable(dir, ca_private_key_filename) /\ Readable(dir, ca_cert_filename)
       THEN /\ ca_cert' = CertFromPrimitive(dir[ca_cert_filename].data)
            /\ messages' = Append(messages, "Reusing existing CA keys")
            /\ stages' = Append(stages, "CA_READY")
            /\ Goto("load_server")
       ELSE /\ ca_cert' = ca_cert
            /\ messages' = Append(messages, "Generating new CA private key")
            /\ stages' = stages
            /\ Goto("generate_ca_key")
  /\ UNCHANGED <<dirVars, nextKey, runs, externals, argVars, server_private_key, server_cert,
                 config, _config, start, generated, attempted, written, uploads, allHist, sessVars>>

\* except IOError: a new CA key is generated and written
GenerateCAKey ==
  /\ pc = "generate_ca_key"
  /\ GenerateKey
  /\ ca_private_key' = nextKey
  /\ Write(ca_private_key_filename, KeyToPrimitive(nextKey), "make_ca_cert")
  /\ UNCHANGED <<dirMode, runs, externals, argVars, ca_cert, server_private_key,
                 server_cert, config, _config, messages, start, stages, uploads, allHist, sessVars>>

\* the CA certificate is made and written
WriteCACert ==
  /\ pc = "make_ca_cert"
  /\ ca_cert' = MakeCACert(ca_private_key)
  /\ Write(ca_cert_filename, CertToPrimitive(MakeCACert(ca_private_key)), "load_server")
  /\ stages' = IF Writable(dir, dirMode, ca_cert_filename)
                 THEN Append(stages, "CA_READY") ELSE stages
  /\ UNCHANGED <<dirMode, nextKey, runs, externals, argVars, ca_private_key,
                 server_private_key, server_cert, config, _config, messages, start,
                 generated, uploads, allHist, sessVars>>

\* generate_keys, second try block: both files of the server are read
LoadServer ==
  /\ pc = "load_server"
  /\ IF Readable(dir, server_private_key_filename)
       THEN server_private_key' = KeyFromPrimitive(dir[server_private_key_filename].data)
       ELSE server_private_key' = server_private_key
  /\ IF Readable(dir, server_private_key_filename) /\ Readable(dir, server_certificate_filename)
       THEN /\ server_cert' = CertFromPrimitive(dir[server_certificate_filename].data)
            /\ messages' = Append(messages, "Reusing existing server keys")
            /\ Goto("verify")
       ELSE /\ server_cert' = server_cert
            /\ messages' = Append(messages, "Generating new Server private keys")
            /\ Goto("generate_server_key")
  /\ UNCHANGED <<dirVars, nextKey, runs, externals, argVars, ca_private_key, ca_cert,
                 config, _config, runHist, allHist, sessVars>>

\* except IOError: a new server key is generated and written
GenerateServerKey ==
  /\ pc = "generate_server_key"
  /\ GenerateKey
  /\ server_private_key' = nextKey
  /\ Write(server_private_key_filename, KeyToPrimitive(nextKey), "make_server_cert")
  /\ UNCHANGED <<dirMode, runs, externals, argVars, ca_private_key, ca_cert,
                 server_cert, config, _config, messages, start, stages, uploads, allHist, sessVars>>

\* (mutation of ServerCertificate: the certificate is signed with the server's
\* own key)
ServerCertificate_SelfSigned(the_key, the_ca_cert, the_ca_key) ==
  MakeCASignedCert(the_key, the_ca_cert, the_key)

\* self.server_cert = crypto.MakeCASignedCert(unicode("rekall-agent-server"),
\*     self.server_private_key, self.ca_cert, ca_private_key, is_ca=False)
ServerCertificate(the_key, the_ca_cert, the_ca_key) ==
  MakeCASignedCert(the_key, the_ca_cert, the_ca_key)

\* the server certificate is made, signed by the CA key, and written
WriteServerCert ==
  /\ pc = "make_server_cert"
  /\ server_cert' = ServerCertificate(server_private_key, ca_cert, ca_private_key)
  /\ Write(server_certificate_filename,
           CertToPrimitive(ServerCertificate(server_private_key, ca_cert, ca_private_key)),
           "verify")
  /\ UNCHANGED <<dirMode, nextKey, runs, externals, argVars, ca_private_key, ca_cert,
                 server_private_key, config, _config, messages, start, stages, generated,
                 uploads, allHist, sessVars>>

\* (mutation of Verify: the certificate is verified in the branch that
\* generates it, a reused certificate is taken as valid)
Verify_GeneratedOnly ==
  /\ pc = "verify"
  /\ IF \/ server_private_key \notin generated
        \/ CertVerify(server_cert, get_public_key(ca_cert))
       THEN /\ Goto("write_config")
            /\ stages' = Append(stages, "SERVER_CERT_READY")
       ELSE /\ Raise("VerificationError")
            /\ stages' = stages
  /\ UNCHANGED <<dirVars, nextKey, runs, externals, argVars, memVars, messages, start,
                 generated, attempted, written, uploads, allHist, sessVars>>

\* self.server_cert.verify(self.ca_cert.get_public_key())
Verify ==
  /\ pc = "verify"
  /\ IF CertVerify(server_cert, get_public_key(ca_cert))
       THEN /\ Goto("write_config")
            /\ stages' = Append(stages, "SERVER_CERT_READY")
       ELSE /\ Raise("VerificationError")
            /\ stages' = stages
  /\ UNCHANGED <<dirVars, nextKey, runs, externals, argVars, memVars, messages, start,
                 generated, attempted, written, uploads, allHist, sessVars>>

----------------------------------------------------------------------------
(* write_config *)

\* (mutation of ServerConfigAccess: the existing document is never found)
ServerConfigAccess_Never(d) == FALSE

\* os.access(server_config_filename, os.R_OK)
ServerConfigAccess(d) == Readable(d, server_config_filename)

\* (mutation of AddAll: the default label is not added)
AddAll_Forgotten(labels) == labels

\* labels = self.plugin_args.labels; if "All" not in labels: labels.add("All")
AddAll(labels) == IF "All" \notin labels THEN labels \cup {"All"} ELSE labels

\* agent.Manifest.from_keywords(...): the startup action reports to the
\* server's flow ticket
Manifest(server) ==
  [kind |-> "Manifest", rekall_session |-> "API",
   startup_location |-> flow_ticket_for_client(server)]

\* agent.SignedManifest.from_keywords(data=..., server_certificate=...) and
\* the assignment of its signature
SignedManifest(manifest, server) ==
  [kind |-> "SignedManifest",
   data |-> to_json(manifest),
   server_certificate |-> server.certificate,
   signature |-> Sign(server.private_key, to_json(manifest))]

\* AgentServerInitialize._build_config: cfg already holds the policies
_build_config(cfg, labels, the_secret, writeback_path, the_ca_cert, the_server_cert, the_key) ==
  LET server == [cfg.server EXCEPT !.certificate = the_server_cert, !.private_key = the_key]
      client == [cfg.client EXCEPT !.labels = AddAll(labels), !.secret = the_secret,
                                   !.writeback_path = writeback_path]
  IN [cfg EXCEPT !.ca_certificate = the_ca_cert,
                 !.server = server,
                 !.client = client,
                 !.manifest = Manifest(server),
                 !.signed_manifest = SignedManifest(Manifest(server), server)]

\* AgentServerInitializeGCS._build_config, the service account file read
GCS_build_config(cfg, labels, the_secret, writeback_path, the_ca_cert, the_server_cert, the_key) ==
  _build_config(
    [cfg EXCEPT !.server = GCSServerPolicy,
                !.client = GCSAgentPolicy(manifest_for_client(GCSServerPolicy))],
    labels, the_secret, writeback_path, the_ca_cert, the_server_cert, the_key)

\* AgentServerInitializeLocalHTTP._build_config up to the use of the name
\* http_location, which the module never imports
HTTP_build_config(cfg, the_server_cert, the_key) ==
  [cfg EXCEPT !.server = HTTPServerPolicy(the_server_cert, the_key)]

\* (mutation of LoadedConfig: the policies of the loaded document are kept but
\* the common fields are taken from this run)
LoadedConfig_FromRun(d) ==
  LET old == from_primitive(d[server_config_filename].data)
  IN [old EXCEPT !.client = [old.client EXCEPT !.labels = AddAll(plugin_args.labels),
                                               !.secret = secret,
                                               !.writeback_path =
                                                  plugin_args.client_writeback_path]]

\* config = agent.Configuration.from_primitive(yaml.safe_load(server_config_data))
LoadedConfig(d) == from_primitive(d[server_config_filename].data)

\* (mutation of LoadConfig: a document that does not parse is replaced by an
\* empty configuration and the run goes on)
LoadConfig_Lenient ==
  /\ pc = "write_config"
  /\ ServerConfigAccess(dir)
  /\ messages' = Append(messages, "Server config exists. Remove to regenerate.")
  /\ config' = IF Parses(dir[server_config_filename].data) THEN LoadedConfig(dir)
                                                            ELSE Configuration
  /\ Goto("write_client_config")
  /\ UNCHANGED <<dirVars, nextKey, runs, externals, argVars, ca_private_key, ca_cert,
                 server_private_key, server_cert, _config, runHist, allHist, sessVars>>

\* the existing server configuration is loaded
LoadConfig ==
  /\ pc = "write_config"
  /\ ServerConfigAccess(dir)
  /\ messages' = Append(messages, "Server config exists. Remove to regenerate.")
  /\ IF Parses(dir[server_config_filename].data)
       THEN /\ config' = LoadedConfig(dir)
            /\ Goto("write_client_config")
       ELSE /\ config' = config
            /\ Raise("ParseError")
  /\ UNCHANGED <<dirVars, nextKey, runs, externals, argVars, ca_private_key, ca_cert,
                 server_private_key, server_cert, _config, runHist, allHist, sessVars>>

\* a new configuration is made (object storage variant)
BuildConfigGCS ==
  /\ pc = "write_config"
  /\ ~ServerConfigAccess(dir)
  /\ variant = "gcs"
  /\ \E service_account_readable \in BOOLEAN :
       IF service_account_readable
         THEN /\ config' = GCS_build_config(Configuration, plugin_args.labels, secret,
                                            plugin_args.client_writeback_path,
                                            ca_cert, server_cert, server_private_key)
              /\ plugin_args' = [plugin_args EXCEPT !.labels = AddAll(plugin_args.labels)]
              /\ stages' = Append(stages, "MANIFEST_SIGNED")
              /\ messages' = Append(messages, "Writing server config file")
              /\ Goto("write_server_config")
         ELSE /\ config' = Configuration
              /\ plugin_args' = plugin_args
              /\ stages' = stages
              /\ messages' = messages
              /\ Raise("IOError")
  /\ UNCHANGED <<dirVars, nextKey, runs, externals, variant, secret, ca_private_key, ca_cert,
                 server_private_key, server_cert, _config, start, generated, attempted,
                 written, uploads, allHist, sessVars>>

\* a new configuration is made (HTTP variant): NameError
BuildConfigHTTP ==
  /\ pc = "write_config"
  /\ ~ServerConfigAccess(dir)
  /\ variant = "http"
  /\ config' = HTTP_build_config(Configuration, server_cert, server_private_key)
  /\ Raise("NameError")
  /\ UNCHANGED <<dirVars, nextKey, runs, externals, argVars, ca_private_key, ca_cert,
                 server_private_key, server_cert, _config, messages, runHist, allHist, sessVars>>

\* fd.write(yaml_utils.safe_dump(config.to_primitive()))
WriteServerConfig ==
  /\ pc = "write_server_config"
  /\ Write(server_config_filename, to_primitive(config), "write_client_config")
  /\ stages' = IF Writable(dir, dirMode, server_config_filename)
                 THEN Append(stages, "CONFIG_WRITTEN") ELSE stages
  /\ UNCHANGED <<dirMode, nextKey, runs, externals, argVars, memVars, messages,
                 start, generated, uploads, allHist, sessVars>>

\* (mutation of ClientConfig: the whole configuration is handed to the client)
ClientConfig_Everything(cfg) == cfg

\* client_config: a new Configuration that gets the client policy and the
\* CA certificate of config
ClientConfig(cfg) ==
  [Configuration EXCEPT !.client = cfg.client, !.ca_certificate = cfg.ca_certificate]

\* self.client_config_warning + yaml_utils.safe_dump(client_config.to_primitive())
ClientDocument(cfg) ==
  [kind |-> "yaml", warning |-> client_config_warning,
   fields |-> to_primitive(ClientConfig(cfg)).fields]

WriteClientConfig ==
  /\ pc = "write_client_config"
  /\ messages' = Append(messages, "Writing client config file")
  /\ Write(client_config_filename, ClientDocument(config), "validate")
  /\ UNCHANGED <<dirMode, nextKey, runs, externals, argVars, memVars,
                 start, stages, generated, uploads, allHist, sessVars>>

\* the configuration of another deployment, as a text
OtherDeployment ==
  LET server == [GCSServerPolicy EXCEPT !.bucket = "other"]
  IN to_primitive([Configuration EXCEPT
                     !.server = server,
                     !.manifest = Manifest(server),
                     !.signed_manifest = SignedManifest(Manifest(server), server)])

\* the inline sources a run of the plugin is started with
RunInline == {None, OtherDeployment}

\* (mutation of InlineData: the environment is asked before the session)
InlineData_EnvironFirst(sess, env) ==
  IF Truthy(env.REKALL_AGENT_CONFIG)
    THEN [source |-> "REKALL_AGENT_CONFIG", data |-> env.REKALL_AGENT_CONFIG]
    ELSE [source |-> "agent_config_data", data |-> sess.agent_config_data]

\* config_data = session.GetParameter("agent_config_data");
\* if not config_data: config_data = os.environ.get("REKALL_AGENT_CONFIG")
InlineData(sess, env) ==
  IF Truthy(sess.agent_config_data)
    THEN [source |-> "agent_config_data", data |-> sess.agent_config_data]
    ELSE [source |-> "REKALL_AGENT_CONFIG", data |-> env.REKALL_AGENT_CONFIG]

\* agent_config = session.GetParameter("agent_configuration") or
\*                os.environ.get("REKALL_AGENT_CONFIG_FILE")
ConfigFileName(sess, env) ==
  IF sess.agent_configuration # ""
    THEN [source |-> "agent_configuration", name |-> sess.agent_configuration]
    ELSE [source |-> "REKALL_AGENT_CONFIG_FILE", name |-> env.REKALL_AGENT_CONFIG_FILE]

\* serializer.unserialize(data=yaml.safe_load(config_data), strict_parsing=False)
\* if there is a text, obj.NoneObject otherwise
Unserialize(source, config_data) ==
  IF ~Truthy(config_data) THEN [outcome |-> "ok", source |-> "", value |-> NoneObject]
  ELSE IF ~Parses(config_data) THEN [outcome |-> "ParseError", source |-> source, value |-> None]
  ELSE [outcome |-> "ok", source |-> source, value |-> from_primitive(config_data)]

\* AgentConfigHook.calculate
AgentConfigHook(sess, env, fs) ==
  LET inline == InlineData(sess, env)
      file == ConfigFileName(sess, env)
  IN IF Truthy(inline.data) THEN Unserialize(inline.source, inline.data)
     ELSE IF file.name = "" THEN Unserialize("", None)
     ELSE IF ~Readable(fs, file.name)
            THEN [outcome |-> "IOError", source |-> file.source, value |-> None]
     ELSE Unserialize(file.source, fs[file.name].data)

\* the server configuration is loaded again through the session: the hook
\* finds the inline sources the process was started with
ValidateConfig ==
  /\ pc = "validate"
  /\ \E agent_config_data \in RunInline, REKALL_AGENT_CONFIG \in RunInline :
       LET sess == [agent_config_data |-> agent_config_data,
                    agent_configuration |-> server_config_filename]
           env == [REKALL_AGENT_CONFIG |-> REKALL_AGENT_CONFIG,
                   REKALL_AGENT_CONFIG_FILE |-> ""]
           got == AgentConfigHook(sess, env, dir)
       IN /\ session' = sess
          /\ environ' = env
          /\ hook' = got
          /\ IF got.outcome = "ok"
               THEN /\ _config' = got.value
                    /\ IF got.value = None THEN Raise("RuntimeError")
                                           ELSE Goto("write_manifest")
               ELSE /\ _config' = _config
                    /\ Raise(got.outcome)
  /\ UNCHANGED <<dirVars, nextKey, runs, externals, argVars, ca_private_key, ca_cert,
                 server_private_key, server_cert, config, messages, runHist, allHist>>

----------------------------------------------------------------------------
(* write_manifest *)

\* (mutation of OverridesWriteManifest: no variant overrides write_manifest)
OverridesWriteManifest_Nowhere(v) == FALSE

\* whether the plugin class of the variant overrides write_manifest
OverridesWriteManifest(v) == v = "http"

\* upload_location = self._config.server.manifest_for_server();
\* upload_location.write_file(self._config.signed_manifest.to_json())
Upload(cfg) ==
  [location |-> manifest_for_server(cfg.server), data |-> to_json(cfg.signed_manifest)]

\* AgentServerInitialize.write_manifest: the signed manifest is uploaded
WriteManifestGCS ==
  /\ pc = "write_manifest"
  /\ ~OverridesWriteManifest(variant)
  /\ messages' = messages \o <<"Writing manifest file.", "Writing manifest file to">>
  /\ \E upload_ok \in BOOLEAN :
       LET upload == Upload(_config)
       IN IF upload_ok
            THEN /\ uploads' = Append(uploads, upload)
                 /\ stages' = Append(stages, "PUBLISHED")
                 /\ Goto("finish")
            ELSE /\ uploads' = uploads
                 /\ stages' = stages
                 /\ Raise("IOError")
  /\ UNCHANGED <<dir, dirMode, nextKey, runs, externals, argVars, memVars, start,
                 generated, attempted, written, allHist, sessVars>>

\* AgentServerInitializeLocalHTTP.write_manifest: return []
WriteManifestHTTP ==
  /\ pc = "write_manifest"
  /\ OverridesWriteManifest(variant)
  /\ Goto("finish")
  /\ UNCHANGED <<dirVars, nextKey, runs, externals, argVars, memVars, messages, runHist,
                 allHist, sessVars>>

\* yield dict(Message="Done!")
Finish ==
  /\ pc = "finish"
  /\ messages' = Append(messages, "Done!")
  /\ stages' = Append(stages, "DONE")
  /\ Goto("done")
  /\ UNCHANGED <<dirVars, nextKey, runs, externals, argVars, memVars, start,
                 generated, attempted, written, uploads, allHist, sessVars>>

\* what a run leaves in the directory, for comparison with later runs
Snapshot(d) ==
  [set |-> TRUE,
   ca_key |-> d[ca_private_key_filename].data,
   ca_cert |-> d[ca_cert_filename].data,
   server_key |-> d[server_private_key_filename].data,
   server_cert |-> d[server_certificate_filename].data,
   server_config |-> d[server_config_filename].data]

\* the process exits
EndRun ==
  /\ pc \in {"done", "failed"}
  /\ pc' = "idle"
  /\ error' = ""
  /\ variant' = "gcs"
  /\ plugin_args' = NoArgs
  /\ secret' = 0
  /\ ca_private_key' = NoKey
  /\ ca_cert' = None
  /\ server_private_key' = NoKey
  /\ server_cert' = None
  /\ config' = None
  /\ _config' = None
  /\ messages' = <<>>
  /\ session' = NoSession
  /\ environ' = NoEnviron
  /\ hook' = NoHook
  /\ start' = NoStart
  /\ stages' = <<>>
  /\ generated' = {}
  /\ attempted' = {}
  /\ written' = {}
  /\ uploads' = <<>>
  /\ pristine' = (pristine /\ pc = "done")
  /\ first' = IF pristine /\ pc = "done" /\ ~first.set THEN Snapshot(dir) ELSE first
  /\ UNCHANGED <<dirVars, nextKey, runs, externals>>

Next ==
  \/ ExternalRemove
  \/ ExternalRemoveKeys
  \/ ExternalChmod
  \/ ExternalChmodDir
  \/ ExternalEdit
  \/ StartRun
  \/ LoadCA
  \/ GenerateCAKey
  \/ WriteCACert
  \/ LoadServer
  \/ GenerateServerKey
  \/ WriteServerCert
  \/ Verify
  \/ LoadConfig
  \/ BuildConfigGCS
  \/ BuildConfigHTTP
  \/ WriteServerConfig
  \/ WriteClientConfig
  \/ ValidateConfig
  \/ WriteManifestGCS
  \/ WriteManifestHTTP
  \/ Finish
  \/ EndRun

Spec == Init /\ [][Next]_vars

----------------------------------------------------------------------------
(* AgentConfigHook.calculate on its own: the hook answers in a session whose *)
(* parameters, environment and files are anything a session can hold.        *)

\* what agent_config_data and REKALL_AGENT_CONFIG can hold
HookData == {None, Empty, Garbage, OtherDeployment}

\* what agent_configuration and REKALL_AGENT_CONFIG_FILE can name
HookNames == {"", server_config_filename, client_config_filename}

\* what a named file can be: missing, unreadable, empty, unparsable, a
\* configuration
HookFiles ==
  {Absent,
   [present |-> TRUE, r |-> FALSE, w |-> FALSE, data |-> OtherDeployment]}
  \cup {[present |-> TRUE, r |-> TRUE, w |-> TRUE, data |-> data] :
          data \in {Empty, Garbage, OtherDeployment}}

InitHook ==
  /\ dir \in {[f \in Files |-> IF f = server_config_filename THEN a
                              ELSE IF f = client_config_filename THEN b
                              ELSE Absent] : a \in HookFiles, b \in HookFiles}
  /\ session \in [agent_config_data : HookData, agent_configuration : HookNames]
  /\ environ \in [REKALL_AGENT_CONFIG : HookData, REKALL_AGENT_CONFIG_FILE : HookNames]
  /\ hook = NoHook
  /\ dirMode = [r |-> TRUE, w |-> TRUE]
  /\ nextKey = 1
  /\ runs = 0
  /\ externals = 0
  /\ pc = "idle"
  /\ error = ""
  /\ variant = "gcs"
  /\ plugin_args = NoArgs
  /\ secret = 0
  /\ ca_private_key = NoKey
  /\ ca_cert = None
  /\ server_private_key = NoKey
  /\ server_cert = None
  /\ config = None
  /\ _config = None
  /\ messages = <<>>
  /\ start = NoStart
  /\ stages = <<>>
  /\ generated = {}
  /\ attempted = {}
  /\ written = {}
  /\ uploads = <<>>
  /\ pristine = TRUE
  /\ first = NoFirst

\* session.GetParameter("agent_config_obj", cached=False)
CalculateHook ==
  /\ hook = NoHook
  /\ hook' = AgentConfigHook(session, environ, dir)
  /\ UNCHANGED <<dirVars, nextKey, runs, externals, pc, error, argVars, memVars, messages,
                 session, environ, runHist, allHist>>

NextHook == CalculateHook

SpecHook == InitHook /\ [][NextHook]_vars

----------------------------------------------------------------------------
(* Properties *)

InSeq(x, seq) == \E i \in 1..Len(seq) : seq[i] = x

IsPrefix(a, b) == Len(a) <= Len(b) /\ \A i \in 1..Len(a) : a[i] = b[i]

Running == pc # "idle"

\* the shared secret a server configuration document records
SecretOf(data) == data.fields["client"].secret

\* exactly one file of the pair a, b exists in d
HalfPair(d, a, b) == d[a].present # d[b].present

\* C1 (idempotence across runs): in a directory that started empty, that no
\* operator changed and in which every run so far succeeded, each run after
\* the first generates no key and leaves the CA key and certificate, the
\* server key and certificate and the server configuration, with the shared
\* secret in it, as the first run wrote them.
C1_Idempotence ==
  (pristine /\ first.set) =>
    /\ generated = {}
    /\ dir[ca_private_key_filename].data = first.ca_key
    /\ dir[ca_cert_filename].data = first.ca_cert
    /\ dir[server_private_key_filename].data = first.server_key
    /\ dir[server_certificate_filename].data = first.server_cert
    /\ dir[server_config_filename].data = first.server_config
    /\ SecretOf(dir[server_config_filename].data) = SecretOf(first.server_config)

\* a third successful run whose process drew another secret and was given
\* another writeback path than the first run recorded
C1_Witness ==
  /\ pristine /\ first.set
  /\ pc = "done"
  /\ runs = 3
  /\ secret # SecretOf(first.server_config)
  /\ plugin_args.client_writeback_path # first.server_config.fields["client"].writeback_path

\* C2 (inconsistency detection), as claimed: a run that starts with exactly
\* one file of the CA pair or of the server pair generates no key, leaves the
\* four key and certificate files as they were and does not succeed.
C2_InconsistentArtifact ==
  (/\ Running
   /\ \/ HalfPair(start.dir, ca_private_key_filename, ca_cert_filename)
      \/ HalfPair(start.dir, server_private_key_filename, server_certificate_filename))
  => /\ generated = {}
     /\ \A f \in KeyFiles : dir[f] = start.dir[f]
     /\ pc # "done"

\* C3 (verify before persist), as claimed: a server key or certificate file
\* written by the run is on disk only after the server certificate has passed
\* verification against the CA certificate.
C3_VerifyBeforePersist ==
  (\/ server_private_key_filename \in written
   \/ server_certificate_filename \in written)
  => InSeq("SERVER_CERT_READY", stages)

\* C4 (fresh CA forces fresh server certificate), as claimed: when a run that
\* wrote a new CA certificate comes to verify the server certificate, that
\* certificate was written by the same run and verifies against the new CA.
C4_FreshCAForcesFreshServer ==
  (pc = "verify" /\ ca_cert_filename \in written)
  => /\ server_certificate_filename \in written
     /\ server_private_key_filename \in written
     /\ CertVerify(server_cert, get_public_key(ca_cert))

\* C5 (secret isolation): a client configuration document written by a run
\* holds the client policy and the CA certificate of the run's configuration
\* and no other field: no server policy (with its private key and
\* certificate), no manifest, no signed manifest.
C5_SecretIsolation ==
  client_config_filename \in written =>
    LET doc == dir[client_config_filename].data
    IN /\ DOMAIN doc.fields = {"client", "ca_certificate"}
       /\ doc.fields["client"] = config.client
       /\ doc.fields["ca_certificate"] = config.ca_certificate
       /\ doc.warning = client_config_warning

\* a client document written on the reuse path of the HTTP variant, from a
\* configuration that holds a server private key
C5_Witness ==
  /\ client_config_filename \in written
  /\ variant = "http"
  /\ config.server.private_key # NoKey
  /\ config.signed_manifest # None

\* C6 (chain of trust of the signed manifest), as claimed: after a successful
\* run the signed manifest in the server configuration document verifies
\* under its server certificate, and that certificate verifies against the
\* CA certificate in ca.cert.pem.
C6_ManifestChain ==
  pc = "done" =>
    LET sm == dir[server_config_filename].data.fields["signed_manifest"]
        persisted == CertFromPrimitive(dir[ca_cert_filename].data)
    IN /\ SigVerify(sm.signature, sm.data, get_public_key(sm.server_certificate))
       /\ CertVerify(sm.server_certificate, get_public_key(persisted))

\* C7 (top-level reuse gate): a run that starts with a readable server
\* configuration document never opens it for writing and leaves it as it
\* was, and a client configuration document it writes is the one derived
\* from that document; the server configuration document is written only by
\* a run that started without a readable one.
C7_ReuseGate ==
  Running =>
    /\ ServerConfigAccess(start.dir) =>
         /\ dir[server_config_filename] = start.dir[server_config_filename]
         /\ server_config_filename \notin attempted
         /\ ~InSeq("MANIFEST_SIGNED", stages)
         /\ client_config_filename \in written =>
              dir[client_config_filename].data =
                ClientDocument(from_primitive(start.dir[server_config_filename].data))
    /\ server_config_filename \in written => ~ServerConfigAccess(start.dir)

\* a run on the reuse path that wrote the client document although its own
\* labels, writeback path and secret all differ from the loaded ones
C7_Witness ==
  /\ pc = "done"
  /\ ServerConfigAccess(start.dir)
  /\ client_config_filename \in written
  /\ LET client == dir[client_config_filename].data.fields["client"]
     IN /\ client.secret # secret
        /\ client.labels # AddAll(plugin_args.labels)
        /\ client.writeback_path # plugin_args.client_writeback_path

\* C8 (stage order), as claimed: a run that reaches DONE has passed
\* CA_READY, SERVER_CERT_READY, CONFIG_WRITTEN, MANIFEST_SIGNED and
\* PUBLISHED, in this order.
C8_StageOrder_Claimed ==
  pc = "done" =>
    stages = <<"CA_READY", "SERVER_CERT_READY", "CONFIG_WRITTEN", "MANIFEST_SIGNED",
               "PUBLISHED", "DONE">>

\* the stages a run passes when it succeeds, given the directory it started
\* with and its variant
ExpectedStages ==
  <<"CA_READY", "SERVER_CERT_READY">>
  \o (IF ServerConfigAccess(start.dir) THEN <<>> ELSE <<"MANIFEST_SIGNED", "CONFIG_WRITTEN">>)
  \o (IF variant = "gcs" THEN <<"PUBLISHED">> ELSE <<>>)
  \o <<"DONE">>

\* C8 (stage order), amended: the stages a run has passed are at every moment
\* an initial part of CA_READY, SERVER_CERT_READY, MANIFEST_SIGNED,
\* CONFIG_WRITTEN, PUBLISHED, DONE, in which MANIFEST_SIGNED and
\* CONFIG_WRITTEN are left out when the run started with a readable server
\* configuration document and PUBLISHED is left out in the HTTP variant; a
\* run that reaches DONE has passed all of them.
C8_StageOrder ==
  Running =>
    /\ IsPrefix(stages, ExpectedStages)
    /\ pc = "done" => stages = ExpectedStages

\* a successful run that signed a manifest, wrote the server configuration
\* and published
C8_Witness ==
  /\ pc = "done"
  /\ InSeq("MANIFEST_SIGNED", stages)
  /\ InSeq("CONFIG_WRITTEN", stages)
  /\ InSeq("PUBLISHED", stages)

C10_DirectoryPermission ==
  (Running /\ ~dirMode.w) =>
    /\ pc = "failed"
    /\ messages = <<>>
    /\ generated = {}
    /\ attempted = {}

\* C11 (terminal message): "Done!" is emitted at most once and as the last
\* message, by a run in which generate_keys has passed verification,
\* write_config has written the client configuration and loaded the
\* configuration back, and write_manifest has returned (with its one upload in
\* the object storage variant), all without an exception; a run that an
\* exception has ended has emitted no "Done!".
C11_TerminalMessage ==
  /\ InSeq("Done!", messages) =>
       /\ pc = "done"
       /\ error = ""
       /\ messages[Len(messages)] = "Done!"
       /\ \A i \in 1..(Len(messages) - 1) : messages[i] # "Done!"
       /\ InSeq("SERVER_CERT_READY", stages)
       /\ client_config_filename \in written
       /\ hook.outcome = "ok"
       /\ ~OverridesWriteManifest(variant) => Len(uploads) = 1
  /\ (pc = "failed" \/ error # "") => ~InSeq("Done!", messages)

\* a run of the object storage variant that has emitted "Done!" after other
\* messages
C11_Witness ==
  /\ pc = "done"
  /\ variant = "gcs"
  /\ Len(messages) > 1
  /\ messages[Len(messages)] = "Done!"

\* the run started with a server configuration document that is readable but
\* does not parse into a Configuration
UnparsableAtStart ==
  /\ Running
  /\ ServerConfigAccess(start.dir)
  /\ ~Parses(start.dir[server_config_filename].data)

\* C12 (configuration parse failure): a run that finds an existing server
\* configuration document which does not parse fails when it loads the
\* document: it never opens the client configuration document for writing,
\* leaves both documents as they were, publishes no manifest and emits no
\* "Done!".
C12_ParseFailure ==
  UnparsableAtStart =>
    /\ pc \notin {"write_server_config", "write_client_config", "validate",
                  "write_manifest", "finish", "done"}
    /\ InSeq("Server config exists. Remove to regenerate.", messages) =>
         (pc = "failed" /\ error = "ParseError")
    /\ client_config_filename \notin attempted
    /\ server_config_filename \notin attempted
    /\ dir[client_config_filename] = start.dir[client_config_filename]
    /\ dir[server_config_filename] = start.dir[server_config_filename]
    /\ uploads = <<>>
    /\ ~InSeq("Done!", messages)

\* a run that has failed on loading the hand-edited document, after its keys
\* verified
C12_Witness ==
  /\ UnparsableAtStart
  /\ pc = "failed"
  /\ error = "ParseError"
  /\ InSeq("SERVER_CERT_READY", stages)
  /\ start.dir[client_config_filename].present

\* C13 (atomic CA persistence), as claimed: a run that has failed has written
\* a new CA private key only together with the CA certificate made from it,
\* and the certificate only together with the key.
C13_AtomicCAPersistence ==
  pc = "failed" =>
    /\ ca_private_key_filename \in written <=> ca_cert_filename \in written
    /\ ca_private_key_filename \in written =>
         CertFromPrimitive(dir[ca_cert_filename].data) =
           MakeCACert(KeyFromPrimitive(dir[ca_private_key_filename].data))

\* the run started with both CA files readable and no server private key
ServerKeyMissingAtStart ==
  /\ Running
  /\ Readable(start.dir, ca_private_key_filename)
  /\ Readable(start.dir, ca_cert_filename)
  /\ ~start.dir[server_private_key_filename].present

\* C14 (server bundle re-derivation): a run that starts with both CA files
\* readable and the server private key missing does not reuse the server
\* pair and never opens a CA file for writing, so both CA files stay as they
\* were; the server certificate it writes belongs to the server key it wrote,
\* is signed by the key in the existing CA key file and verifies against the
\* existing CA certificate; its verification does not fail, and once it has
\* passed the run has generated exactly one key and written both server files.
C14_ServerRederivation ==
  ServerKeyMissingAtStart =>
    /\ dir[ca_private_key_filename] = start.dir[ca_private_key_filename]
    /\ dir[ca_cert_filename] = start.dir[ca_cert_filename]
    /\ ca_private_key_filename \notin attempted
    /\ ca_cert_filename \notin attempted
    /\ ~InSeq("Reusing existing server keys", messages)
    /\ error # "VerificationError"
    /\ server_certificate_filename \in written =>
         LET cert == CertFromPrimitive(dir[server_certificate_filename].data)
             key == KeyFromPrimitive(dir[server_private_key_filename].data)
         IN /\ server_private_key_filename \in written
            /\ key \in generated
            /\ get_public_key(cert) = PublicOf(key)
            /\ cert.signer = KeyFromPrimitive(start.dir[ca_private_key_filename].data)
            /\ CertVerify(cert, get_public_key(
                             CertFromPrimitive(start.dir[ca_cert_filename].data)))
    /\ InSeq("SERVER_CERT_READY", stages) =>
         /\ Cardinality(generated) = 1
         /\ server_private_key_filename \in written
         /\ server_certificate_filename \in written

\* a finished run that replaced the certificate of the removed server key
C14_Witness ==
  /\ ServerKeyMissingAtStart
  /\ pc = "done"
  /\ start.dir[server_certificate_filename].present
  /\ server_certificate_filename \in written
  /\ dir[server_certificate_filename] # start.dir[server_certificate_filename]

\* the key and certificate files that were present but unreadable at the
\* start of the run
UnreadableAtStart == {f \in KeyFiles : start.dir[f].present /\ ~start.dir[f].r}

\* C15 (unreadable key file halts), as claimed: a run that starts with a key
\* or certificate file present but unreadable generates no key, opens no such
\* file for writing, leaves the four key and certificate files as they were,
\* does not complete the stage the unreadable file belongs to and does not
\* succeed.
C15_UnreadableKeyHalts ==
  (Running /\ UnreadableAtStart # {}) =>
    /\ generated = {}
    /\ attempted \cap UnreadableAtStart = {}
    /\ \A f \in KeyFiles : dir[f] = start.dir[f]
    /\ UnreadableAtStart \cap {ca_private_key_filename, ca_cert_filename} # {} =>
         ~InSeq("CA_READY", stages)
    /\ ~InSeq("SERVER_CERT_READY", stages)
    /\ pc # "done"

\* C16 (manifest publication by variant), as claimed: a finished run of the
\* object storage variant has written the signed manifest exactly once, to
\* manifest_for_server() of the configuration that the server configuration
\* document holds, with the signed manifest of that document, and no run
\* uploads before both configuration documents are in the directory and the
\* client document is written; a run of the HTTP variant uploads nothing.
C16_ManifestPublication ==
  /\ (pc = "done" /\ variant = "gcs") =>
       /\ Len(uploads) = 1
       /\ uploads[1] = Upload(from_primitive(dir[server_config_filename].data))
  /\ (Running /\ uploads # <<>>) =>
       /\ Len(uploads) = 1
       /\ variant = "gcs"
       /\ client_config_filename \in written
       /\ Readable(dir, server_config_filename)
  /\ (Running /\ variant = "http") => uploads = <<>>

\* the positions of a run from the configuration-writing stage on
ConfigStagePositions ==
  {"write_config", "write_server_config", "write_client_config", "validate",
   "write_manifest", "finish", "done"}

\* the run has begun to write configuration or to publish
ConfigWorkBegun ==
  \/ config # None
  \/ attempted \cap {server_config_filename, client_config_filename} # {}
  \/ uploads # <<>>

\* C17 (verification gates configuration on both paths): a run is at or past
\* the configuration-writing stage, or has begun any configuration work,
\* only with a server certificate in memory that verifies against the CA
\* certificate in memory; a run holding a reused server certificate that
\* does not verify is at the verification or has failed there, and has
\* opened no configuration document and published nothing.
C17_VerificationGate ==
  /\ (pc \in ConfigStagePositions \/ ConfigWorkBegun) =>
       /\ server_cert # None
       /\ ca_cert # None
       /\ CertVerify(server_cert, get_public_key(ca_cert))
       /\ InSeq("SERVER_CERT_READY", stages)
  /\ (/\ InSeq("Reusing existing server keys", messages)
      /\ ~CertVerify(server_cert, get_public_key(ca_cert))) =>
       /\ pc \in {"verify", "failed"}
       /\ pc = "failed" => error = "VerificationError"
       /\ ~ConfigWorkBegun
       /\ dir[server_config_filename] = start.dir[server_config_filename]
       /\ dir[client_config_filename] = start.dir[client_config_filename]

\* a run that generated a new CA, reused the server pair of the old one and
\* has failed at the verification
C17_Witness ==
  /\ pc = "failed"
  /\ error = "VerificationError"
  /\ InSeq("Generating new CA private key", messages)
  /\ InSeq("Reusing existing server keys", messages)
  /\ ~CertVerify(server_cert, get_public_key(ca_cert))

\* the four key and certificate files of d are readable and the server
\* certificate does not verify against the CA certificate
BrokenChain(d) ==
  /\ \A f \in KeyFiles : Readable(d, f)
  /\ ~CertVerify(CertFromPrimitive(d[server_certificate_filename].data),
                 get_public_key(CertFromPrimitive(d[ca_cert_filename].data)))

\* C18 (no self-healing of a broken chain): a run that starts on a directory
\* whose four key and certificate files are readable and whose server
\* certificate does not verify against the CA certificate generates no key,
\* opens no file for writing, publishes nothing, leaves the directory, and
\* with it the broken chain, exactly as it was, never reaches the
\* configuration-writing stage or "Done!", and when it has failed it has
\* failed at the verification (at the directory check, if the directory
\* itself has been made inaccessible).
C18_NoSelfHealing ==
  (Running /\ BrokenChain(start.dir)) =>
    /\ dir = start.dir
    /\ BrokenChain(dir)
    /\ generated = {}
    /\ attempted = {}
    /\ uploads = <<>>
    /\ pc \notin ConfigStagePositions
    /\ ~InSeq("Done!", messages)
    /\ pc = "failed" =>
         error = IF ConfigDirAccess(dirMode) THEN "VerificationError" ELSE "PluginError"

\* the run after the one that broke the chain has failed at the verification
\* as well
C18_Witness ==
  /\ BrokenChain(start.dir)
  /\ pc = "failed"
  /\ error = "VerificationError"
  /\ runs = MaxRuns
  /\ InSeq("Reusing existing CA keys", messages)

\* the text found in the file of that name: None when no file is named or
\* the file cannot be read
FileText(name) == IF name # "" /\ Readable(dir, name) THEN dir[name].data ELSE None

\* the four sources of the claim, in its order, each with the text it yields
Sources ==
  <<[source |-> "agent_config_data", data |-> session.agent_config_data],
    [source |-> "REKALL_AGENT_CONFIG", data |-> environ.REKALL_AGENT_CONFIG],
    [source |-> "agent_configuration", data |-> FileText(session.agent_configuration)],
    [source |-> "REKALL_AGENT_CONFIG_FILE",
     data |-> FileText(environ.REKALL_AGENT_CONFIG_FILE)]>>

\* the hook has answered with the object the text `data` of `source` holds
ResolvedFrom(source, data) ==
  /\ hook.source = source
  /\ IF Parses(data) THEN hook.outcome = "ok" /\ hook.value = from_primitive(data)
                     ELSE hook.outcome = "ParseError"

\* the hook has answered with the none-object
NoneAnswer == hook.outcome = "ok" /\ hook.value = NoneObject

\* C19 (configuration source precedence), as claimed: the answer of the hook
\* is resolved from the first of the four sources that yields a text, and is
\* the none-object exactly when none of them does.
C19_SourcePrecedence_Claimed ==
  hook # NoHook =>
    /\ \A i \in 1..Len(Sources) :
         (/\ Truthy(Sources[i].data)
          /\ \A j \in 1..(i - 1) : ~Truthy(Sources[j].data))
         => ResolvedFrom(Sources[i].source, Sources[i].data)
    /\ NoneAnswer <=> \A i \in 1..Len(Sources) : ~Truthy(Sources[i].data)

\* the one file the hook opens: the file agent_configuration names, else the
\* file REKALL_AGENT_CONFIG_FILE names
NamedFile ==
  IF session.agent_configuration # ""
    THEN [source |-> "agent_configuration", name |-> session.agent_configuration]
    ELSE [source |-> "REKALL_AGENT_CONFIG_FILE", name |-> environ.REKALL_AGENT_CONFIG_FILE]

\* neither inline source holds a text
NoInline ==
  /\ ~Truthy(session.agent_config_data)
  /\ ~Truthy(environ.REKALL_AGENT_CONFIG)

\* C19 (configuration source precedence), amended: the hook answers from
\* agent_config_data if it holds a text, else from REKALL_AGENT_CONFIG if it
\* holds a text, else from the one file named by agent_configuration or, only
\* when that parameter is not set, by REKALL_AGENT_CONFIG_FILE; a named file
\* that cannot be opened makes the hook raise IOError, and the answer is the
\* none-object exactly when no inline source holds a text and either no file
\* is named or the named file is empty.  So when agent_configuration names a
\* readable, non-empty document, the answer comes from that document exactly
\* when neither inline source holds a text.
C19_SourcePrecedence ==
  hook # NoHook =>
    /\ Truthy(session.agent_config_data) =>
         ResolvedFrom("agent_config_data", session.agent_config_data)
    /\ (~Truthy(session.agent_config_data) /\ Truthy(environ.REKALL_AGENT_CONFIG)) =>
         ResolvedFrom("REKALL_AGENT_CONFIG", environ.REKALL_AGENT_CONFIG)
    /\ (NoInline /\ NamedFile.name # "" /\ ~Readable(dir, NamedFile.name)) =>
         hook.outcome = "IOError"
    /\ (NoInline /\ NamedFile.name # "" /\ Readable(dir, NamedFile.name)
          /\ Truthy(dir[NamedFile.name].data)) =>
         ResolvedFrom(NamedFile.source, dir[NamedFile.name].data)
    /\ NoneAnswer <=>
         /\ NoInline
         /\ \/ NamedFile.name = ""
            \/ Readable(dir, NamedFile.name) /\ ~Truthy(dir[NamedFile.name].data)
    /\ (/\ session.agent_configuration # ""
        /\ Readable(dir, session.agent_configuration)
        /\ Truthy(dir[session.agent_configuration].data)) =>
         (hook.source = "agent_configuration" <=> NoInline)

\* the hook has answered with the none-object although the file that
\* REKALL_AGENT_CONFIG_FILE names holds a configuration: agent_configuration
\* names an empty file
C19_Witness ==
  /\ NoneAnswer
  /\ NoInline
  /\ session.agent_configuration # ""
  /\ environ.REKALL_AGENT_CONFIG_FILE # ""
  /\ environ.REKALL_AGENT_CONFIG_FILE # session.agent_configuration
  /\ Parses(FileText(environ.REKALL_AGENT_CONFIG_FILE))

====
